---- MODULE Spec2Model ----
(***************************************************************************)
(* Model of cycling/rads_sla2ioda.py: the batch driver main() and the      *)
(* per-file converter radsSsha2ioda (__init__ and _read).                  *)
(*                                                                         *)
(* Conventions.                                                            *)
(*  - A calendar date (datetime.date) is its proleptic Gregorian ordinal,  *)
(*    as date.toordinal() gives it; 0 stands for an unbound local.         *)
(*  - A command-line string is a sequence of one-character strings.        *)
(*  - A day-offset read from time_mjd is the record [D, s, t]: D whole     *)
(*    days, s whole seconds of the day, t ticks of the second, a tick      *)
(*    being 1/TicksPerMicro of a microsecond.                              *)
(*  - An attribute value (units, _FillValue) is a string.                  *)
(***************************************************************************)
EXTENDS Integers, Sequences, FiniteSets, TLC

VARIABLES
    args,        \* the parsed command line: [start, end]
    pc,          \* position of main(); where it was raised, once err is set
    err,         \* the exception that ended the run ("" while none)
    jday_st,     \* main: jday_st
    jday_end,    \* main: jday_end
    sat,         \* main: index in sats of the for loop
    jday,        \* main: jday
    fdate,       \* main: fdate
    fn,          \* main: fn
    isfileCalls, \* how often os.path.isfile was asked, per candidate
    present,     \* the candidates os.path.isfile found
    opens,       \* how often nc.Dataset was called, per candidate
    ncd,         \* _read: the dataset handle, [state, file]
    obs,         \* main: obs, the radsSsha2ioda object
    written,     \* how often the writer was handed a file, per candidate
    handoff      \* the arguments of the IodaWriter/BuildIoda call just made

vars == <<args, pc, err, jday_st, jday_end, sat, jday, fdate, fn, isfileCalls,
          present, opens, ncd, obs, written, handoff>>

-----------------------------------------------------------------------------
(* Bounds of the model *)

MaxLocs == 2

TicksPerMicro == 4

-----------------------------------------------------------------------------
(* datetime.date arithmetic, as the Python standard library computes it *)

IsLeap(y) == (y % 4 = 0) /\ ((y % 100 # 0) \/ (y % 400 = 0))

DaysBeforeYear(y) ==
    LET p == y - 1 IN p * 365 + (p \div 4) - (p \div 100) + (p \div 400)

DaysInMonth(y, m) ==
    IF m = 2 THEN (IF IsLeap(y) THEN 29 ELSE 28)
    ELSE IF m \in {4, 6, 9, 11} THEN 30 ELSE 31

\* the days of a common year before each month
DaysBeforeMonthTable == <<0, 31, 59, 90, 120, 151, 181, 212, 243, 273, 304, 334>>

DaysBeforeMonth(y, m) ==
    DaysBeforeMonthTable[m] + (IF m > 2 /\ IsLeap(y) THEN 1 ELSE 0)

\* date(y, m, d) is a date exactly when this holds; ValueError otherwise
ValidYmd(y, m, d) ==
    /\ y >= 1 /\ y <= 9999
    /\ m >= 1 /\ m <= 12
    /\ d >= 1 /\ d <= DaysInMonth(y, m)

Ymd2Ord(y, m, d) == DaysBeforeYear(y) + DaysBeforeMonth(y, m) + d

YearOf(n) ==
    CHOOSE y \in (n \div 366) .. ((n \div 365) + 1) :
        DaysBeforeYear(y) < n /\ n <= DaysBeforeYear(y + 1)

MonthOf(n) ==
    LET y   == YearOf(n)
        doy == n - DaysBeforeYear(y)
    IN CHOOSE m \in 1..12 :
          /\ DaysBeforeMonth(y, m) < doy
          /\ doy <= DaysBeforeMonth(y, m) + DaysInMonth(y, m)

DayOf(n) ==
    LET y == YearOf(n)
    IN (n - DaysBeforeYear(y)) - DaysBeforeMonth(y, MonthOf(n))

\* date.max.toordinal(): 9999-12-31
MAXORDINAL == DaysBeforeYear(10000)

-----------------------------------------------------------------------------
(* Strings of digits: int(), slicing and strftime *)

DigitChars == <<"0", "1", "2", "3", "4", "5", "6", "7", "8", "9">>

Digits == {"0", "1", "2", "3", "4", "5", "6", "7", "8", "9"}

IsDigit(c) == c \in Digits

DigitVal(c) ==
    CASE c = "0" -> 0 [] c = "1" -> 1 [] c = "2" -> 2 [] c = "3" -> 3 [] c = "4" -> 4
      [] c = "5" -> 5 [] c = "6" -> 6 [] c = "7" -> 7 [] c = "8" -> 8 [] c = "9" -> 9

AllDigits(s) == \A i \in 1..Len(s) : IsDigit(s[i])

\* int(s) of a string of decimal digits
RECURSIVE IntOf(_)
IntOf(s) ==
    IF Len(s) = 0 THEN 0
    ELSE IntOf(SubSeq(s, 1, Len(s) - 1)) * 10 + DigitVal(s[Len(s)])

\* s[a:b] of Python, 0-based and half-open
Slice(s, a, b) == SubSeq(s, a + 1, b)

\* the decimal digits of n >= 0, zero-padded to width w (%Y is 4 wide, %j is 3)
RECURSIVE Pad(_, _)
Pad(n, w) ==
    IF w = 0 THEN <<>> ELSE Pad(n \div 10, w - 1) \o <<DigitChars[(n % 10) + 1]>>

\* jday.strftime('%Y%j')
StrftimeYj(n) ==
    LET y == YearOf(n) IN Pad(y, 4) \o Pad(n - DaysBeforeYear(y), 3)

-----------------------------------------------------------------------------
(* main: the start and end dates *)

\* ParseYDoy with the day of the year counted from 0: the "- 1" of line 162 left out
ParseYDoy_DoyFromZero(s) ==
    IF ~AllDigits(s) THEN [ok |-> FALSE, exc |-> "ValueError", ord |-> 0]
    ELSE LET year == IntOf(Slice(s, 0, 4))
             doy  == IntOf(Slice(s, 4, 7))
         IN IF ~ValidYmd(year, 1, 1)
            THEN [ok |-> FALSE, exc |-> "ValueError", ord |-> 0]
            ELSE [ok |-> TRUE, exc |-> "", ord |-> Ymd2Ord(year, 1, 1) + doy]

\* the elif branch: YYYYDOY
ParseYDoy(s) ==
    IF ~AllDigits(s) THEN [ok |-> FALSE, exc |-> "ValueError", ord |-> 0]
    ELSE LET year == IntOf(Slice(s, 0, 4))
             doy  == IntOf(Slice(s, 4, 7))
         IN IF ~ValidYmd(year, 1, 1)
            THEN [ok |-> FALSE, exc |-> "ValueError", ord |-> 0]
            ELSE LET n == Ymd2Ord(year, 1, 1) + (doy - 1)
                 IN IF n < 1 \/ n > MAXORDINAL
                    THEN [ok |-> FALSE, exc |-> "OverflowError", ord |-> 0]
                    ELSE [ok |-> TRUE, exc |-> "", ord |-> n]

\* the if branch: YYYYMMDD
ParseYmd(s) ==
    IF ~AllDigits(s) THEN [ok |-> FALSE, exc |-> "ValueError", ord |-> 0]
    ELSE LET year == IntOf(Slice(s, 0, 4))
             mon  == IntOf(Slice(s, 4, 6))
             day  == IntOf(Slice(s, 6, 8))
         IN IF ~ValidYmd(year, mon, day)
            THEN [ok |-> FALSE, exc |-> "ValueError", ord |-> 0]
            ELSE [ok |-> TRUE, exc |-> "", ord |-> Ymd2Ord(year, mon, day)]

\* ParseDate with the first test written len(...) >= 8
ParseDate_AtLeast8(s) ==
    IF Len(s) >= 8 THEN ParseYmd(s)
    ELSE IF Len(s) = 7 THEN ParseYDoy(s)
    ELSE [ok |-> FALSE, exc |-> "SystemExit", ord |-> 0]

\* the if / elif / else on len(args.start), and the same on len(args.end)
ParseDate(s) ==
    IF Len(s) = 8 THEN ParseYmd(s)
    ELSE IF Len(s) = 7 THEN ParseYDoy(s)
    ELSE [ok |-> FALSE, exc |-> "SystemExit", ord |-> 0]

-----------------------------------------------------------------------------
(* Module-level tables of rads_sla2ioda.py *)

obsvars == <<"seaSurfaceHeightAnomaly", "sla">>

locationKeyList == <<
    [ioda |-> "latitude",  dtype |-> "float", unit |-> "degrees_north", rads |-> "lat"],
    [ioda |-> "longitude", dtype |-> "float", unit |-> "degrees_east",  rads |-> "lon"],
    [ioda |-> "dateTime",  dtype |-> "long",
     unit |-> "seconds since 1970-01-01T00:00:00Z", rads |-> "time_mjd"] >>

\* iconv.MetaDataName(), OvalName(), OerrName(), OqcName()
metaDataName == "MetaData"
obsValName == "ObsValue"
obsErrName == "ObsError"
qcName == "PreQC"

\* nc.default_fillvals of the four numeric types, and '_'
float_missing_value == "default_fillvals[f4]"
int_missing_value == "default_fillvals[i4]"
double_missing_value == "default_fillvals[f8]"
long_missing_value == "default_fillvals[i8]"
string_missing_value == "_"

\* missing_vals with the 32-bit integer sentinel under 'long'
missing_vals_LongAsInt ==
    [t \in {"string", "integer", "long", "float", "double"} |->
        CASE t = "string"  -> string_missing_value
          [] t = "integer" -> int_missing_value
          [] t = "long"    -> int_missing_value
          [] t = "float"   -> float_missing_value
          [] t = "double"  -> double_missing_value]

missing_vals ==
    [t \in {"string", "integer", "long", "float", "double"} |->
        CASE t = "string"  -> string_missing_value
          [] t = "integer" -> int_missing_value
          [] t = "long"    -> long_missing_value
          [] t = "float"   -> float_missing_value
          [] t = "double"  -> double_missing_value]

dtypes ==
    [t \in {"string", "integer", "long", "float", "double"} |->
        CASE t = "string"  -> "object"
          [] t = "integer" -> "int32"
          [] t = "long"    -> "int64"
          [] t = "float"   -> "float32"
          [] t = "double"  -> "float64"]

\* epoch: 1970-01-01T00:00:00, cut out of the dateTime unit string
epoch == [ord |-> Ymd2Ord(1970, 1, 1), seconds |-> 0, microseconds |-> 0]

\* refTimeRads: 1858-11-17T00:00:00
refTimeRads == [ord |-> Ymd2Ord(1858, 11, 17), seconds |-> 0, microseconds |-> 0]

sats == << <<"c", "2">>, <<"j", "2">>, <<"s", "a">> >>

-----------------------------------------------------------------------------
(* _read: the time normalisation of one time_mjd element                   *)

TicksPerSecond == 1000000 * TicksPerMicro

\* a / b rounded to the nearest integer, ties to even (a >= 0, b > 0)
RoundHalfEvenDiv(a, b) ==
    LET q == a \div b
        r == a % b
    IN IF 2 * r > b \/ (2 * r = b /\ q % 2 = 1) THEN q + 1 ELSE q

\* datetime.timedelta(days=np.float64(d)): the value is kept to the microsecond,
\* rounded half to even, and normalised to 0 <= seconds < 86400
Timedelta(d) ==
    LET us   == RoundHalfEvenDiv(d.t, TicksPerMicro)
        sec  == d.s + (us \div 1000000)
    IN [days         |-> d.D + (sec \div 86400),
        seconds      |-> sec % 86400,
        microseconds |-> us % 1000000]

\* timedelta(days=d) raises OverflowError above this many days
MaxTimedeltaDays == 999999999

TimedeltaOverflows(d) == Timedelta(d).days > MaxTimedeltaDays

\* datetime + timedelta; OverflowError when the date leaves 0001..9999
DatetimePlus(dt, td) ==
    LET us  == dt.microseconds + td.microseconds
        sec == dt.seconds + td.seconds + (us \div 1000000)
    IN [ord          |-> dt.ord + td.days + (sec \div 86400),
        seconds      |-> sec % 86400,
        microseconds |-> us % 1000000]

DatetimeInRange(dt) == dt.ord >= 1 /\ dt.ord <= MAXORDINAL

\* datetime - datetime: a normalised timedelta
DatetimeMinus(a, b) ==
    LET us  == a.microseconds - b.microseconds
        sec == (a.seconds - b.seconds) + (IF us < 0 THEN -1 ELSE 0)
    IN [days         |-> (a.ord - b.ord) + (IF sec < 0 THEN -1 ELSE 0),
        seconds      |-> sec % 86400,
        microseconds |-> us % 1000000]

\* TotalSeconds with timedelta.seconds read in place of total_seconds()
TotalSeconds_SecondsField(td) ==
    [S |-> td.seconds, microseconds |-> td.microseconds]

\* timedelta.total_seconds(): whole seconds S and the microseconds above them
TotalSeconds(td) ==
    [S |-> td.days * 86400 + td.seconds, microseconds |-> td.microseconds]

\* Round with int(x) in place of round(x): truncation towards zero
Round_Truncate(x) ==
    IF x.S < 0 /\ x.microseconds > 0 THEN x.S + 1 ELSE x.S

\* round(x) of Python 3: to the nearest integer, ties to even
Round(x) ==
    IF 2 * x.microseconds > 1000000
       \/ (2 * x.microseconds = 1000000 /\ x.S % 2 = 1)
    THEN x.S + 1
    ELSE x.S

\* whether the expression of lines 114-116 raises for this element
NormalizeRaises(d) ==
    \/ TimedeltaOverflows(d)
    \/ ~DatetimeInRange(DatetimePlus(refTimeRads, Timedelta(d)))

\* np.int64(round((refTimeRads + timedelta(days=d) - epoch).total_seconds()))
NormalizeTime(d) ==
    Round(TotalSeconds(DatetimeMinus(DatetimePlus(refTimeRads, Timedelta(d)), epoch)))

-----------------------------------------------------------------------------
(* The input files: what nc.Dataset finds on disk *)

Var(p, v) == [present |-> p, vals |-> v]

Attr(p, v) == [present |-> p, value |-> v]

\* lat, lon and sla values of a variable of length n
LatVals(n) == [i \in 1..n |-> 10 * i]
LonVals(n) == [i \in 1..n |-> 100 + i]
SlaVals(n) == [i \in 1..n |-> 5 + i]

MjdOfEpoch == epoch.ord - refTimeRads.ord

HalfSecond == TicksPerSecond \div 2

\* the day-offsets the files hold
DayOffsetList ==
    << [D |-> MjdOfEpoch,     s |-> 0,     t |-> 0],
       [D |-> MjdOfEpoch + 1, s |-> 0,     t |-> 0],
       [D |-> MjdOfEpoch,     s |-> 1,     t |-> HalfSecond - 1],
       [D |-> MjdOfEpoch,     s |-> 2,     t |-> HalfSecond + 1],
       [D |-> MjdOfEpoch - 1, s |-> 86399, t |-> TicksPerSecond - 1],
       [D |-> MjdOfEpoch - 1, s |-> 86398, t |-> TicksPerSecond \div 4],
       [D |-> MaxTimedeltaDays + 1, s |-> 0, t |-> 0] >>

\* the time_mjd vectors the files hold: n day-offsets taken from the list in
\* steps, from any first one and with any step, the list being walked in a circle;
\* these are every single day-offset and every ordered pair of them
TimeVectors(n) ==
    LET L == Len(DayOffsetList)
    IN { [i \in 1..n |-> DayOffsetList[((k + (i - 1) * step) % L) + 1]] :
            k \in 0..(L - 1), step \in 0..(L - 1) }

\* the units and _FillValue the sla variable carries
SlaAttrs == { [units |-> "m", fill |-> "1.0e36"], [units |-> "cm", fill |-> "-32768"] }

\* a file that keeps the input contract: "time" of size n and four variables on it
GoodFile(ts, a) ==
    [openable |-> TRUE,
     time     |-> [present |-> TRUE, size |-> Len(ts)],
     lat      |-> Var(TRUE, LatVals(Len(ts))),
     lon      |-> Var(TRUE, LonVals(Len(ts))),
     time_mjd |-> Var(TRUE, ts),
     sla      |-> [present |-> TRUE, vals |-> SlaVals(Len(ts)),
                   units |-> Attr(TRUE, a.units), fill |-> Attr(TRUE, a.fill)]]

GoodFiles ==
    { GoodFile(ts, a) : ts \in UNION { TimeVectors(n) : n \in 0..MaxLocs },
                        a \in SlaAttrs }

BaseFile ==
    GoodFile(<<[D |-> MjdOfEpoch + 1, s |-> 0, t |-> 0]>>, [units |-> "m", fill |-> "1.0e36"])

\* files that break the contract in one place
DefectFiles ==
    { [BaseFile EXCEPT !.openable = FALSE],
      [BaseFile EXCEPT !.time.present = FALSE],
      [BaseFile EXCEPT !.lat.present = FALSE],
      [BaseFile EXCEPT !.lon.present = FALSE],
      [BaseFile EXCEPT !.time_mjd.present = FALSE],
      [BaseFile EXCEPT !.sla.present = FALSE],
      [BaseFile EXCEPT !.sla.units.present = FALSE],
      [BaseFile EXCEPT !.sla.fill.present = FALSE],
      [BaseFile EXCEPT !.lat.vals = LatVals(2)],
      [BaseFile EXCEPT !.lon.vals = LonVals(0)],
      [BaseFile EXCEPT !.sla.vals = SlaVals(2)],
      [BaseFile EXCEPT !.time_mjd.vals = <<>>],
      [BaseFile EXCEPT !.time_mjd.vals =
          <<[D |-> MjdOfEpoch, s |-> 0, t |-> 0], [D |-> MjdOfEpoch, s |-> 1, t |-> 0]>>] }

Files == GoodFiles \cup DefectFiles

NoFile == [BaseFile EXCEPT !.openable = FALSE, !.time.present = FALSE]

-----------------------------------------------------------------------------
(* Dictionaries *)

EmptyDict == <<>>

Put(d, k, v) == [x \in (DOMAIN d) \cup {k} |-> IF x = k THEN v ELSE d[x]]

\* d[k][a] = v on a DefaultOrderedDict of dicts: d[k] springs into being
PutAttr(d, k, a, v) ==
    Put(d, k, Put(IF k \in DOMAIN d THEN d[k] ELSE EmptyDict, a, v))

-----------------------------------------------------------------------------
(* The state of a run *)

NoDatetime == [ord |-> 0, hour |-> 0, minute |-> 0, second |-> 0]

NoObs ==
    [file_input |-> <<>>, date |-> NoDatetime, globalAttrs |-> EmptyDict,
     varAttrs |-> EmptyDict, data |-> EmptyDict, dimDict |-> EmptyDict,
     varDims |-> EmptyDict]

NoHandoff ==
    [path |-> <<>>, dimDict |-> EmptyDict, data |-> EmptyDict, varDims |-> EmptyDict,
     varAttrs |-> EmptyDict, globalAttrs |-> EmptyDict]

\* the -s arguments the runs are started with
StartStrings ==
    { <<"2", "0", "1", "6", "0", "1", "3", "1">>,
      <<"2", "0", "1", "6", "0", "3", "2">>,
      <<"2", "0", "1", "6", "0", "2">>,
      <<"2", "0", "1", "6", "1", "3", "0", "1">>,
      <<"2", "0", "1", "6", "0", "3", "x">> }

\* the -e arguments the runs are started with
EndStrings ==
    { <<"2", "0", "1", "6", "0", "3", "1">>,
      <<"2", "0", "1", "6", "0", "2", "0", "1">>,
      <<"2", "0", "1", "6", "0", "2", "0", "1", "1">>,
      <<"2", "0", "1", "6", "0", "2", "3", "0">> }

InputDirectory == <<"i", "n">>

OutputDirectory == <<"o", "u", "t">>

Init ==
    /\ args \in { [start |-> s, end |-> e, input_directory |-> InputDirectory,
                   output_directory |-> OutputDirectory] :
                  s \in StartStrings, e \in EndStrings }
    /\ pc = "parse_start"
    /\ err = ""
    /\ err = ""
    /\ jday_st = 0
    /\ jday_end = 0
    /\ sat = 0
    /\ jday = 0
    /\ fdate = NoDatetime
    /\ fn = <<>>
    /\ isfileCalls = EmptyDict
    /\ present = {}
    /\ opens = EmptyDict
    /\ ncd = [state |-> "none", file |-> NoFile]
    /\ obs = NoObs
    /\ written = EmptyDict
    /\ handoff = NoHandoff

\* an exception, or sys.exit, leaves main(): nothing catches it, the run ends
\* at the line that raised
Raise(kind) ==
    /\ pc' = pc
    /\ err' = kind

Count(d, k) == IF k \in DOMAIN d THEN d[k] ELSE 0

Incremented(d, k) == Put(d, k, Count(d, k) + 1)

-----------------------------------------------------------------------------
(* main: lines 157-173 *)

ParseStart ==
    /\ pc = "parse_start"
    /\ err = ""
    /\ LET r == ParseDate(args.start)
       IN IF r.ok
          THEN /\ jday_st' = r.ord
               /\ pc' = "parse_end"
               /\ err' = err
          ELSE /\ Raise(r.exc)
               /\ jday_st' = jday_st
    /\ UNCHANGED <<args, jday_end, sat, jday, fdate, fn, isfileCalls, present, opens,
                   ncd, obs, written, handoff>>

ParseEnd ==
    /\ pc = "parse_end"
    /\ err = ""
    /\ LET r == ParseDate(args.end)
       IN IF r.ok
          THEN /\ jday_end' = r.ord
               /\ sat' = 1
               /\ pc' = "for_sat"
               /\ err' = err
          ELSE /\ Raise(r.exc)
               /\ UNCHANGED <<jday_end, sat>>
    /\ UNCHANGED <<args, jday_st, jday, fdate, fn, isfileCalls, present, opens,
                   ncd, obs, written, handoff>>

-----------------------------------------------------------------------------
(* main: lines 175-188 *)

\* for sat in sats: jday = jday_st
ForSat ==
    /\ pc = "for_sat"
    /\ err = ""
    /\ IF sat <= Len(sats)
       THEN /\ jday' = jday_st
            /\ pc' = "while"
       ELSE /\ jday' = jday
            /\ pc' = "done"
    /\ UNCHANGED <<args, err, jday_st, jday_end, sat, fdate, fn, isfileCalls, present,
                   opens, ncd, obs, written, handoff>>

\* InRange with the end day left out: jday < jday_end
InRange_Exclusive(j, e) == j < e

\* the loop test jday <= jday_end
InRange(j, e) == j <= e

\* Combine with the nominal time taken from the first day of the range
Combine_StartDay(j) == [ord |-> jday_st, hour |-> 12, minute |-> 0, second |-> 0]

\* datetime.datetime.combine(jday, datetime.time(12))
Combine(j) == [ord |-> j, hour |-> 12, minute |-> 0, second |-> 0]

\* sat + '_' + jday.strftime('%Y%j') + '.nc'
FileName(k, j) == sats[k] \o <<"_">> \o StrftimeYj(j) \o <<".", "n", "c">>

\* directory + '/' + fn
PathIn(dir, f) == dir \o <<"/">> \o f

\* while jday <= jday_end: fdate = ...; fn = ...
While ==
    /\ pc = "while"
    /\ err = ""
    /\ IF InRange(jday, jday_end)
       THEN /\ fdate' = Combine(jday)
            /\ fn' = FileName(sat, jday)
            /\ pc' = "isfile"
            /\ sat' = sat
       ELSE /\ sat' = sat + 1
            /\ pc' = "for_sat"
            /\ UNCHANGED <<fdate, fn>>
    /\ UNCHANGED <<args, err, jday_st, jday_end, jday, isfileCalls, present, opens,
                   ncd, obs, written, handoff>>

\* if os.path.isfile(...): the disk answers; a file is asked about once, so the
\* answer is chosen when it is asked for
IsFile ==
    /\ pc = "isfile"
    /\ err = ""
    /\ isfileCalls' = Incremented(isfileCalls, fn)
    /\ \E exists \in BOOLEAN :
          /\ fn \in DOMAIN isfileCalls => exists = (fn \in present)
          /\ IF exists
             THEN /\ present' = present \cup {fn}
                  /\ pc' = "init"
             ELSE /\ present' = present
                  /\ pc' = "incr"
    /\ UNCHANGED <<args, err, jday_st, jday_end, sat, jday, fdate, fn, opens, ncd, obs,
                   written, handoff>>

\* datetime.strftime('%Y-%m-%dT%H:%M:%S%z') of a naive datetime: %z is empty
StrftimeIso(dt) ==
    Pad(YearOf(dt.ord), 4) \o <<"-">> \o Pad(MonthOf(dt.ord), 2) \o <<"-">>
    \o Pad(DayOf(dt.ord), 2) \o <<"T">> \o Pad(dt.hour, 2) \o <<":">>
    \o Pad(dt.minute, 2) \o <<":">> \o Pad(dt.second, 2)

\* __init__, lines 84-90
GlobalAttrs(file_input, date) ==
    [converter         |-> "rads_sla2ioda.py",
     ioda_version      |-> 2,
     sourceFiles       |-> file_input,
     datetimeReference |-> StrftimeIso(date),
     description       |-> "Sea Surface Height Anomaly (SSHA) observations from NESDIS"]

\* __init__, lines 96-98: the first k entries of locationKeyList entered
RECURSIVE MetaAttrs(_, _)
MetaAttrs(va, k) ==
    IF k = 0 THEN va
    ELSE LET e   == locationKeyList[k]
             key == <<e.ioda, metaDataName>>
         IN PutAttr(PutAttr(MetaAttrs(va, k - 1), key, "_FillValue", missing_vals[e.dtype]),
                    key, "units", e.unit)

\* obs = radsSsha2ioda(path, fdate): __init__ up to the call of _read. While the
\* constructor runs the new object is self; main's obs names it from here on, the
\* object of the previous file being read by no code after this line
Construct ==
    /\ pc = "init"
    /\ err = ""
    /\ LET path == PathIn(args.input_directory, fn)
       IN obs' = [file_input  |-> path,
                  date        |-> fdate,
                  globalAttrs |-> GlobalAttrs(path, fdate),
                  varAttrs    |-> MetaAttrs(EmptyDict, Len(locationKeyList)),
                  data        |-> EmptyDict,
                  dimDict     |-> EmptyDict,
                  varDims     |-> EmptyDict]
    /\ pc' = "open"
    /\ UNCHANGED <<args, err, jday_st, jday_end, sat, jday, fdate, fn, isfileCalls,
                   present, opens, ncd, written, handoff>>

\* OnReadError with the call wrapped in try / except: continue
OnReadError_Skip(kind) ==
    /\ pc' = "incr"
    /\ err' = err

\* an exception inside radsSsha2ioda(...) at line 182: no try encloses the call
OnReadError(kind) == Raise(kind)

\* _read, line 104: ncd = nc.Dataset(self.file_input)
ReadOpen ==
    /\ pc = "open"
    /\ err = ""
    /\ opens' = Incremented(opens, fn)
    /\ \E f \in Files :
          IF f.openable
          THEN /\ ncd' = [state |-> "open", file |-> f]
               /\ pc' = "dims"
               /\ err' = err
          ELSE /\ OnReadError("OSError")
               /\ ncd' = ncd
    /\ UNCHANGED <<args, jday_st, jday_end, sat, jday, fdate, fn, isfileCalls, present,
                   obs, written, handoff>>

\* _read, lines 105-107
ReadDims ==
    /\ pc = "dims"
    /\ err = ""
    /\ IF ncd.file.time.present
       THEN /\ obs' = [obs EXCEPT
                         !.dimDict = Put(EmptyDict, "Location", ncd.file.time.size),
                         !.varDims = Put(EmptyDict, obsvars[1], <<"Location">>)]
            /\ pc' = "meta"
            /\ err' = err
       ELSE /\ OnReadError("KeyError")
            /\ obs' = obs
    /\ UNCHANGED <<args, jday_st, jday_end, sat, jday, fdate, fn, isfileCalls, present,
                   opens, ncd, written, handoff>>

\* the exception lines 110-120 raise on file f with nlocs = n, "" when none
MetaExc(f, n) ==
    IF ~f.lat.present \/ ~f.lon.present \/ ~f.time_mjd.present THEN "KeyError"
    ELSE LET bad == { i \in 1..n : \/ i > Len(f.time_mjd.vals)
                                   \/ NormalizeRaises(f.time_mjd.vals[i]) }
         IN IF bad = {} THEN ""
            ELSE LET i == CHOOSE j \in bad : \A k \in bad : j <= k
                 IN IF i > Len(f.time_mjd.vals) THEN "IndexError" ELSE "OverflowError"

\* np.array(values, dtype=t)
Array(t, v) == [dtype |-> t, vals |-> v]

\* lines 112-117: the time_offset list of the first n elements
TimeOffsets(v, n) == [i \in 1..n |-> NormalizeTime(v[i])]

\* lines 110-120: the first k entries of locationKeyList read into data
RECURSIVE ReadMetaData(_, _, _, _)
ReadMetaData(data, f, n, k) ==
    IF k = 0 THEN data
    ELSE LET e    == locationKeyList[k]
             key  == <<e.ioda, metaDataName>>
             prev == ReadMetaData(data, f, n, k - 1)
         IN IF e.ioda = "dateTime"
            THEN Put(prev, key, Array("int64", TimeOffsets(f.time_mjd.vals, n)))
            ELSE Put(prev, key,
                     Array(dtypes[e.dtype],
                           IF e.rads = "lat" THEN f.lat.vals ELSE f.lon.vals))

\* _read, lines 110-120
ReadMeta ==
    /\ pc = "meta"
    /\ err = ""
    /\ LET n == obs.dimDict["Location"]
           x == MetaExc(ncd.file, n)
       IN IF x = ""
          THEN /\ obs' = [obs EXCEPT !.data =
                             ReadMetaData(obs.data, ncd.file, n, Len(locationKeyList))]
               /\ pc' = "obsvar"
               /\ err' = err
          ELSE /\ OnReadError(x)
               /\ obs' = obs
    /\ UNCHANGED <<args, jday_st, jday_end, sat, jday, fdate, fn, isfileCalls, present,
                   opens, ncd, written, handoff>>

\* the exception lines 123-131 raise on file f, "" when none
ObsExc(f) ==
    IF ~f.sla.present THEN "KeyError"
    ELSE IF ~f.sla.units.present \/ ~f.sla.fill.present THEN "AttributeError"
    ELSE ""

\* Zeros with np.ones in its place
Zeros_Ones(n, t) == Array(t, [i \in 1..n |-> 1])

\* np.zeros(n, dtype=t)
Zeros(n, t) == Array(t, [i \in 1..n |-> 0])

\* lines 123-127
ObsAttrs(va, f) ==
    LET val == <<obsvars[1], obsValName>>
        er  == <<obsvars[1], obsErrName>>
        qc  == <<obsvars[1], qcName>>
        a1  == PutAttr(va, val, "units", f.sla.units.value)
        a2  == PutAttr(a1, er, "units", f.sla.units.value)
        a3  == PutAttr(a2, val, "_FillValue", f.sla.fill.value)
        a4  == PutAttr(a3, er, "_FillValue", f.sla.fill.value)
    IN PutAttr(a4, qc, "_FillValue", int_missing_value)

\* lines 129-131
ObsData(data, f, n) ==
    LET d1 == Put(data, <<obsvars[1], obsValName>>, Array("float32", f.sla.vals))
        d2 == Put(d1, <<obsvars[1], obsErrName>>, Zeros(n, "float32"))
    IN Put(d2, <<obsvars[1], qcName>>, Zeros(n, "int32"))

\* _read, lines 123-131
ReadObs ==
    /\ pc = "obsvar"
    /\ err = ""
    /\ LET x == ObsExc(ncd.file)
       IN IF x = ""
          THEN /\ obs' = [obs EXCEPT
                            !.varAttrs = ObsAttrs(obs.varAttrs, ncd.file),
                            !.data = ObsData(obs.data, ncd.file, obs.dimDict["Location"])]
               /\ pc' = "close"
               /\ err' = err
          ELSE /\ OnReadError(x)
               /\ obs' = obs
    /\ UNCHANGED <<args, jday_st, jday_end, sat, jday, fdate, fn, isfileCalls, present,
                   opens, ncd, written, handoff>>

\* _read, line 133: ncd.close(); _read and __init__ return
ReadClose ==
    /\ pc = "close"
    /\ err = ""
    /\ ncd' = [ncd EXCEPT !.state = "closed"]
    /\ pc' = "write"
    /\ UNCHANGED <<args, err, jday_st, jday_end, sat, jday, fdate, fn, isfileCalls,
                   present, opens, obs, written, handoff>>

\* lines 185-186: IodaWriter(...) and writer.BuildIoda(...)
Handoff ==
    /\ pc = "write"
    /\ err = ""
    /\ handoff' = [path        |-> PathIn(args.output_directory, fn),
                   dimDict     |-> obs.dimDict,
                   data        |-> obs.data,
                   varDims     |-> obs.varDims,
                   varAttrs    |-> obs.varAttrs,
                   globalAttrs |-> obs.globalAttrs]
    /\ written' = Incremented(written, fn)
    /\ pc' = "incr"
    /\ UNCHANGED <<args, err, jday_st, jday_end, sat, jday, fdate, fn, isfileCalls,
                   present, opens, ncd, obs>>

\* line 188: jday += datetime.timedelta(days=1); a writer call made in this
\* iteration has returned
Incr ==
    /\ pc = "incr"
    /\ err = ""
    /\ handoff' = NoHandoff
    /\ IF jday + 1 > MAXORDINAL
       THEN /\ Raise("OverflowError")
            /\ jday' = jday
       ELSE /\ jday' = jday + 1
            /\ pc' = "while"
            /\ err' = err
    /\ UNCHANGED <<args, jday_st, jday_end, sat, fdate, fn, isfileCalls, present, opens,
                   ncd, obs, written>>

Next ==
    \/ ParseStart
    \/ ParseEnd
    \/ ForSat
    \/ While
    \/ IsFile
    \/ Construct
    \/ ReadOpen
    \/ ReadDims
    \/ ReadMeta
    \/ ReadObs
    \/ ReadClose
    \/ Handoff
    \/ Incr

Spec == Init /\ [][Next]_vars

-----------------------------------------------------------------------------
(* Vocabulary of the properties *)

BadLength(s) == Len(s) # 7 /\ Len(s) # 8

\* both dates were parsed: the run is in, or ended in, the loops of lines 175-188
DatesParsed == sat >= 1

NoFileIO ==
    /\ DOMAIN isfileCalls = {}
    /\ DOMAIN opens = {}
    /\ DOMAIN written = {}
    /\ ncd.state = "none"

\* the candidates of the run: every satellite on every day of [start, end]
Candidates == { FileName(k, j) : k \in 1..Len(sats), j \in jday_st..jday_end }

ReadPhases == {"open", "dims", "meta", "obsvar", "close"}

\* the read of the current file raised
ReadFailed == err # "" /\ pc \in ReadPhases

\* the metadata of the current file has been read (lines 110-120 are behind)
MetaRead == pc \in {"obsvar", "close", "write"}

\* the current file was read to the end and not yet handed over
ReadDone == pc = "write" /\ err = ""

\* the writer has just been handed the current file
HandedOver == handoff.path # <<>>

Key(name, group) == <<name, group>>

Abs(x) == IF x < 0 THEN -x ELSE x

\* day-offset d1 lies before day-offset d2
Before(d1, d2) ==
    \/ d1.D < d2.D
    \/ d1.D = d2.D /\ d1.s < d2.s
    \/ d1.D = d2.D /\ d1.s = d2.s /\ d1.t < d2.t

\* r seconds since 1970 is within slack ticks of being a nearest integer to the
\* exact (d - 40587) * 86400; the exact value is whole + d.t ticks
NearestWithin(r, d, slack) ==
    LET whole == (d.D - 40587) * 86400 + d.s
        k     == r - whole
    IN /\ k \in {0, 1}
       /\ 2 * Abs(k * TicksPerSecond - d.t) <= TicksPerSecond + 2 * slack

-----------------------------------------------------------------------------
(* C1 *)

\* C1 as stated: once a run with valid dates has ended, every candidate was
\* examined exactly once and went through the pipeline (one open, one handoff)
\* exactly once if it exists and never if it does not.
C1_AsStated ==
    (DatesParsed /\ ~ENABLED Next) =>
        \A c \in Candidates :
            /\ Count(isfileCalls, c) = 1
            /\ Count(opens, c) = (IF c \in present THEN 1 ELSE 0)
            /\ Count(written, c) = (IF c \in present THEN 1 ELSE 0)

\* C1, amended: in a run with valid dates only candidates are examined, each at
\* most once, opened and handed over at most once and only if it exists; the line
\* that examines a candidate never raises, and an absent candidate is never
\* opened, so what ends a run early is never an absent file; and a run that ends
\* normally has examined every candidate exactly once and handed over exactly the
\* existing ones, once each.
C1_BatchCoverage ==
    /\ DOMAIN isfileCalls \subseteq Candidates
    /\ DOMAIN opens \subseteq present
    /\ DOMAIN written \subseteq DOMAIN opens
    /\ \A c \in DOMAIN isfileCalls :
          /\ isfileCalls[c] = 1
          /\ Count(opens, c) <= 1
          /\ Count(written, c) <= Count(opens, c)
    /\ (err # "" /\ DatesParsed) => pc \in ReadPhases \cup {"incr"}
    /\ ReadFailed => fn \in present
    /\ pc = "done" =>
          /\ DOMAIN isfileCalls = Candidates
          /\ \A c \in Candidates :
                /\ isfileCalls[c] = 1
                /\ Count(opens, c) = (IF c \in present THEN 1 ELSE 0)
                /\ Count(written, c) = (IF c \in present THEN 1 ELSE 0)

\* a run over two days has ended normally; on the first day no satellite had a
\* file, on the second exactly one had, and it was converted
C1_Witness ==
    /\ pc = "done"
    /\ jday_end = jday_st + 1
    /\ Cardinality(present) = 1
    /\ \E k \in 1..Len(sats) :
          /\ FileName(k, jday_end) \in present
          /\ Count(written, FileName(k, jday_end)) = 1

-----------------------------------------------------------------------------
(* C2 *)

\* C2: when the start or the end string has a length other than 7 or 8, the run
\* never gets past the parsing of the dates, does no file I/O (no existence check,
\* no open, no handoff), and where it stops it has stopped with an error.
C2_BadLengthAborts ==
    (BadLength(args.start) \/ BadLength(args.end)) =>
        /\ NoFileIO
        /\ pc \in {"parse_start", "parse_end"}
        /\ ~DatesParsed
        /\ (~ENABLED Next) => err # ""

\* the start string was valid, the end string was not, and the run has exited
C2_Witness ==
    /\ BadLength(args.end)
    /\ ~BadLength(args.start)
    /\ pc = "parse_end"
    /\ jday_st # 0
    /\ err = "SystemExit"

-----------------------------------------------------------------------------
(* C3 *)

\* C3: when the read of an existing candidate fails, the run is over: nothing is
\* enabled any more (no later candidate is examined, read or written), the failing
\* file was opened once (no retry) and never handed to the writer; and no failure
\* is passed over: every file opened before the current one was handed over, and
\* so was the current one once the loop moves past it.
C3_ReadFailureFatal ==
    /\ ReadFailed =>
          /\ ~ENABLED Next
          /\ Count(opens, fn) = 1
          /\ Count(written, fn) = 0
          /\ ~HandedOver
    /\ \A c \in DOMAIN opens :
          (c # fn \/ pc \in {"incr", "while", "for_sat", "done"}) => Count(written, c) = 1

\* the read of an existing file has failed on a missing dimension, variable or
\* attribute, after an earlier file of the run was converted
C3_Witness ==
    /\ ReadFailed
    /\ pc \in {"dims", "meta", "obsvar"}
    /\ err \in {"KeyError", "AttributeError"}
    /\ DOMAIN written # {}

-----------------------------------------------------------------------------
(* C4 *)

\* C4: whenever the per-file read has ended, normally or with an error, its
\* handle is not open.
C4_HandleReleased ==
    (ReadFailed \/ pc \in {"write", "incr", "while", "for_sat", "done"}) =>
        ncd.state # "open"

-----------------------------------------------------------------------------
(* C5 *)

-----------------------------------------------------------------------------
(* C6 *)

\* C6: within a file read, an earlier day-offset never gets a later normalised
\* time than a later day-offset, and equal day-offsets get equal times.
C6_Monotonic ==
    MetaRead =>
        \A i, j \in 1..ncd.file.time.size :
            LET v == obs.data[Key("dateTime", metaDataName)].vals
                d == ncd.file.time_mjd.vals
            IN /\ Before(d[i], d[j]) => v[i] <= v[j]
               /\ d[i] = d[j] => v[i] = v[j]

\* a file was read that holds two different day-offsets, the later one first,
\* one before 1970 and one after
C6_Witness ==
    /\ MetaRead
    /\ ncd.file.time.size = 2
    /\ Before(ncd.file.time_mjd.vals[2], ncd.file.time_mjd.vals[1])
    /\ obs.data[Key("dateTime", metaDataName)].vals[2] < 0
    /\ obs.data[Key("dateTime", metaDataName)].vals[1] > 0

-----------------------------------------------------------------------------
(* C7 *)

\* the date n is the calendar date the 8 characters of s spell
SpellsYmd(s, n) ==
    /\ YearOf(n) = IntOf(SubSeq(s, 1, 4))
    /\ MonthOf(n) = IntOf(SubSeq(s, 5, 6))
    /\ DayOf(n) = IntOf(SubSeq(s, 7, 8))

\* the date n is day IntOf(s[5..7]) of the year the 7 characters of s spell,
\* January 1 being day 1
SpellsYDoy(s, n) ==
    n - Ymd2Ord(IntOf(SubSeq(s, 1, 4)), 1, 1) = IntOf(SubSeq(s, 5, 7)) - 1

Denotes(s, n) ==
    /\ Len(s) \in {7, 8}
    /\ Len(s) = 8 => SpellsYmd(s, n)
    /\ Len(s) = 7 => SpellsYDoy(s, n)

\* C7: a date main() holds is the one its string denotes by length alone (8:
\* YYYYMMDD, 7: YYYYDOY), "20160201" and "2016032" both give 2016-02-01, and a
\* string of another length never gives a date.
C7_DatesByLength ==
    /\ jday_st # 0 => Denotes(args.start, jday_st)
    /\ jday_end # 0 => Denotes(args.end, jday_end)
    /\ (pc # "parse_start" /\ ~BadLength(args.start)) => jday_st # 0
    /\ (DatesParsed /\ ~BadLength(args.end)) => jday_end # 0
    /\ BadLength(args.start) => (jday_st = 0 /\ pc = "parse_start")
    /\ BadLength(args.end) => (jday_end = 0 /\ ~DatesParsed)
    /\ (jday_st # 0 /\ args.start = <<"2", "0", "1", "6", "0", "3", "2">>) =>
          (YearOf(jday_st) = 2016 /\ MonthOf(jday_st) = 2 /\ DayOf(jday_st) = 1)
    /\ (jday_end # 0 /\ args.end = <<"2", "0", "1", "6", "0", "2", "0", "1">>) =>
          (YearOf(jday_end) = 2016 /\ MonthOf(jday_end) = 2 /\ DayOf(jday_end) = 1)

\* a run was started with -s 2016032 -e 20160201 and both were parsed to the
\* same day
C7_Witness ==
    /\ DatesParsed
    /\ args.start = <<"2", "0", "1", "6", "0", "3", "2">>
    /\ args.end = <<"2", "0", "1", "6", "0", "2", "0", "1">>
    /\ jday_st = jday_end
    /\ jday_st # 0

-----------------------------------------------------------------------------
(* C8 *)

HasAttr(va, key, a) == key \in DOMAIN va /\ a \in DOMAIN va[key]

\* C8: at every writer handoff the attribute table has a _FillValue for latitude,
\* longitude and dateTime under MetaData and for the value, error and
\* quality-control entries of seaSurfaceHeightAnomaly; latitude and longitude carry
\* the 32-bit float sentinel, dateTime the 64-bit integer sentinel; value and error
\* carry the units and the _FillValue of the source sla variable.
C8_FillValues ==
    HandedOver =>
        LET va  == handoff.varAttrs
            src == ncd.file.sla
        IN /\ \A key \in { Key("latitude", "MetaData"), Key("longitude", "MetaData"),
                           Key("dateTime", "MetaData"),
                           Key("seaSurfaceHeightAnomaly", "ObsValue"),
                           Key("seaSurfaceHeightAnomaly", "ObsError"),
                           Key("seaSurfaceHeightAnomaly", "PreQC") } :
                 HasAttr(va, key, "_FillValue")
           /\ va[Key("latitude", "MetaData")]["_FillValue"] = "default_fillvals[f4]"
           /\ va[Key("longitude", "MetaData")]["_FillValue"] = "default_fillvals[f4]"
           /\ va[Key("dateTime", "MetaData")]["_FillValue"] = "default_fillvals[i8]"
           /\ \A key \in { Key("seaSurfaceHeightAnomaly", "ObsValue"),
                           Key("seaSurfaceHeightAnomaly", "ObsError") } :
                 /\ HasAttr(va, key, "units")
                 /\ va[key]["units"] = src.units.value
                 /\ va[key]["_FillValue"] = src.fill.value

\* a file whose sla is in cm with fill value -32768 has been handed to the writer
C8_Witness ==
    /\ HandedOver
    /\ ncd.file.sla.units.value = "cm"
    /\ handoff.varAttrs[Key("seaSurfaceHeightAnomaly", "ObsError")]["_FillValue"] = "-32768"

-----------------------------------------------------------------------------
(* C9 *)

AllZero(a) == \A i \in 1..Len(a.vals) : a.vals[i] = 0

\* C9 as stated: after a successful read of a file whose time dimension has size
\* N, all six arrays have length N, the dimension map is {Location: N}, and the
\* error and quality-control arrays are all zero.
C9_AsStated ==
    ReadDone =>
        LET N == ncd.file.time.size
        IN /\ \A key \in DOMAIN obs.data : Len(obs.data[key].vals) = N
           /\ Cardinality(DOMAIN obs.data) = 6
           /\ DOMAIN obs.dimDict = {"Location"}
           /\ obs.dimDict["Location"] = N
           /\ AllZero(obs.data[Key("seaSurfaceHeightAnomaly", "ObsError")])
           /\ AllZero(obs.data[Key("seaSurfaceHeightAnomaly", "PreQC")])

\* C9, amended: after a successful read of a file whose time dimension has size
\* N there are six arrays, the dimension map is {Location: N}, the dateTime, error
\* and quality-control arrays have length N, the latitude, longitude and value
\* arrays have the lengths of the source variables lat, lon and sla (N when those
\* variables lie on the time dimension), and the error and quality-control arrays
\* are all zero whatever the observation values are.
C9_ArrayLengths ==
    ReadDone =>
        LET N == ncd.file.time.size
            f == ncd.file
        IN /\ DOMAIN obs.data =
                 { Key("latitude", "MetaData"), Key("longitude", "MetaData"),
                   Key("dateTime", "MetaData"),
                   Key("seaSurfaceHeightAnomaly", "ObsValue"),
                   Key("seaSurfaceHeightAnomaly", "ObsError"),
                   Key("seaSurfaceHeightAnomaly", "PreQC") }
           /\ DOMAIN obs.dimDict = {"Location"}
           /\ obs.dimDict["Location"] = N
           /\ Len(obs.data[Key("dateTime", "MetaData")].vals) = N
           /\ Len(obs.data[Key("seaSurfaceHeightAnomaly", "ObsError")].vals) = N
           /\ Len(obs.data[Key("seaSurfaceHeightAnomaly", "PreQC")].vals) = N
           /\ Len(obs.data[Key("latitude", "MetaData")].vals) = Len(f.lat.vals)
           /\ Len(obs.data[Key("longitude", "MetaData")].vals) = Len(f.lon.vals)
           /\ Len(obs.data[Key("seaSurfaceHeightAnomaly", "ObsValue")].vals) = Len(f.sla.vals)
           /\ (Len(f.lat.vals) = N /\ Len(f.lon.vals) = N /\ Len(f.sla.vals) = N) =>
                 \A key \in DOMAIN obs.data : Len(obs.data[key].vals) = N
           /\ AllZero(obs.data[Key("seaSurfaceHeightAnomaly", "ObsError")])
           /\ AllZero(obs.data[Key("seaSurfaceHeightAnomaly", "PreQC")])

\* a file with as many locations as the model allows and nonzero observation
\* values has been read to the end
C9_Witness ==
    /\ ReadDone
    /\ ncd.file.time.size = MaxLocs
    /\ Len(obs.data[Key("seaSurfaceHeightAnomaly", "ObsError")].vals) = MaxLocs
    /\ \A i \in 1..MaxLocs :
          obs.data[Key("seaSurfaceHeightAnomaly", "ObsValue")].vals[i] # 0

-----------------------------------------------------------------------------
(* C10 *)

\* the characters of fn that hold the date: sat, '_', then YYYYDDD
Stamp(f) == SubSeq(f, 4, 10)

\* the calendar date an ISO string YYYY-MM-DDT... starts with
IsoDate(r) == Ymd2Ord(IntOf(SubSeq(r, 1, 4)), IntOf(SubSeq(r, 6, 7)), IntOf(SubSeq(r, 9, 10)))

\* C10: when a candidate is examined, constructed or about to be opened, no
\* handle is open and every file opened before has been handed to the writer; and
\* what the writer is handed for a file is that file's: the output path carries
\* its name, sourceFiles is its input path, the reference time is 12:00:00 of the
\* day its name is stamped with, the dimension map and the arrays are those of
\* the file just read.
C10_SequentialNoCarryOver ==
    /\ (pc \in {"while", "isfile", "init", "open"} /\ err = "") =>
          /\ ncd.state # "open"
          /\ \A c \in DOMAIN opens : Count(written, c) = 1
    /\ HandedOver =>
          LET f == ncd.file
              g == handoff.globalAttrs
              r == g.datetimeReference
          IN /\ handoff.path = <<"o", "u", "t", "/">> \o fn
             /\ g.sourceFiles = <<"i", "n", "/">> \o fn
             /\ Len(r) = 19
             /\ SubSeq(r, 11, 19) = <<"T", "1", "2", ":", "0", "0", ":", "0", "0">>
             /\ StrftimeYj(IsoDate(r)) = Stamp(fn)
             /\ ncd.state = "closed"
             /\ handoff.dimDict["Location"] = f.time.size
             /\ handoff.data[Key("latitude", "MetaData")].vals = f.lat.vals
             /\ handoff.data[Key("longitude", "MetaData")].vals = f.lon.vals
             /\ handoff.data[Key("seaSurfaceHeightAnomaly", "ObsValue")].vals = f.sla.vals
             /\ Len(handoff.data[Key("dateTime", "MetaData")].vals) = f.time.size
             /\ handoff.varAttrs[Key("seaSurfaceHeightAnomaly", "ObsValue")]["units"]
                   = f.sla.units.value

\* the second existing file of a run, of the run's second day, has been handed
\* to the writer
C10_Witness ==
    /\ HandedOver
    /\ Cardinality(DOMAIN written) = 2
    /\ jday = jday_st + 1

====
